---- MODULE Spec2Model ----
(***************************************************************************)
(* Music streaming analytics (src/music_analytics.py): the batch run that  *)
(* prepares the output directory, loads the listening log and the song     *)
(* catalogue, joins them and runs six analyses.                            *)
(*                                                                         *)
(* Relations with duplicate rows (the log, the enriched log, the           *)
(* recommendation output) are sequences of records; the result of a        *)
(* groupBy, whose key is unique, is a set of records.  A timestamp is a    *)
(* number of hours; a nullable integer is a record [null, v].              *)
(***************************************************************************)
EXTENDS Integers, Sequences, FiniteSets, TLC

VARIABLES
    todo,                   \* the steps of __main__ still to run, next first
    status,                 \* "running", "done" or "failed"
    files,                  \* which input files exist under data/
    prior_output,           \* output/ as the run found it
    output,                 \* output/ now: per subdirectory, what it holds
    logs_csv,               \* rows of data/listening_logs.csv (raw fields)
    songs_csv,              \* rows of data/songs_metadata.csv
    now,                    \* datetime.now() of the run, in hours
    logs_df,
    songs_df,
    enriched_logs,
    user_favorite_genres,
    avg_listen_time,
    top_songs,
    final_recommendations,
    loyalty_scores,
    night_owl_users

vars == <<todo, status, files, prior_output, output, logs_csv, songs_csv, now,
          logs_df, songs_df, enriched_logs, user_favorite_genres,
          avg_listen_time, top_songs, final_recommendations, loyalty_scores,
          night_owl_users>>

(***************************************************************************)
(* Program constants                                                       *)
(***************************************************************************)
WeekDays == 7
HoursPerDay == 24
TopSongsLimit == 10
RecommendationLimit == 3
FavoriteRank == 1
NightStartHour == 0
NightEndHour == 5
\* the cutoff 0.8 of the loyalty filter, as the fraction 8/10
LoyaltyCutoff == [num |-> 8, den |-> 10]

subdirs ==
    {"user_favorite_genres", "avg_listen_time_per_song", "top_songs_this_week",
     "happy_recommendations", "genre_loyalty_scores", "night_owl_users",
     "enriched_logs"}

RecommendationColumns == <<"user_id", "song_id", "title", "artist">>

\* the steps of __main__ in order
MainSequence ==
    <<"prepare_output_directory", "load_data", "task1", "task2", "task3",
      "task4", "task5", "task6", "save_enriched_logs">>

(***************************************************************************)
(* Value domains of the inputs                                             *)
(***************************************************************************)
UserList == <<"U1", "U2">>
Users == {UserList[i] : i \in DOMAIN UserList}
Genres == <<"Pop", "Rock", "Jazz">>
Moods == <<"Happy", "Sad", "Chill">>

(***************************************************************************)
(* Helpers                                                                 *)
(***************************************************************************)
Range(s) == {s[i] : i \in DOMAIN s}

Min(a, b) == IF a <= b THEN a ELSE b

RECURSIVE SumOver(_, _)
SumOver(S, f) ==
    IF S = {} THEN 0
    ELSE LET x == CHOOSE y \in S : TRUE IN f[x] + SumOver(S \ {x}, f)

RECURSIVE Flatten(_)
Flatten(ss) == IF ss = <<>> THEN <<>> ELSE Head(ss) \o Flatten(Tail(ss))

NullInt == [null |-> TRUE, v |-> 0]
IntOf(n) == [null |-> FALSE, v |-> n]

(***************************************************************************)
(* CSV reading with a declared schema (Spark's default PERMISSIVE mode):   *)
(* a field that does not parse as its declared type becomes null and the   *)
(* row is kept.                                                            *)
(***************************************************************************)
Digits == <<"0", "1", "2", "3", "4", "5", "6", "7", "8", "9">>

IsDigit(c) == \E d \in DOMAIN Digits : Digits[d] = c

DigitValue(c) == (CHOOSE d \in DOMAIN Digits : Digits[d] = c) - 1

RECURSIVE DecimalValue(_)
DecimalValue(chars) ==
    IF chars = <<>> THEN 0
    ELSE DecimalValue(SubSeq(chars, 1, Len(chars) - 1)) * 10
         + DigitValue(chars[Len(chars)])

\* IntegerType: the field's decimal value, or null when it is not a number
CastInteger(chars) ==
    IF chars # <<>> /\ \A i \in DOMAIN chars : IsDigit(chars[i])
    THEN IntOf(DecimalValue(chars))
    ELSE NullInt

\* F.to_timestamp of a "YYYY-MM-DD HH:MM:SS" field, read as [day, hour]:
\* hours since day 0, or null when the field is no valid time
to_timestamp(field) ==
    IF field.day >= 0 /\ field.hour \in 0..(HoursPerDay - 1)
    THEN IntOf(field.day * HoursPerDay + field.hour)
    ELSE NullInt

ReadLogs(rows) ==
    [i \in DOMAIN rows |->
        [user_id |-> rows[i].user_id,
         song_id |-> rows[i].song_id,
         timestamp |-> to_timestamp(rows[i].timestamp),
         duration_sec |-> CastInteger(rows[i].duration_sec)]]

ReadSongs(rows) ==
    [i \in DOMAIN rows |->
        [song_id |-> rows[i].song_id,
         title |-> rows[i].title,
         artist |-> rows[i].artist,
         genre |-> rows[i].genre,
         mood |-> rows[i].mood]]

(***************************************************************************)
(* logs_df.join(songs_df, on="song_id", how="inner")                       *)
(***************************************************************************)
JoinRow(l, s) ==
    [song_id |-> l.song_id, user_id |-> l.user_id, timestamp |-> l.timestamp,
     duration_sec |-> l.duration_sec, title |-> s.title, artist |-> s.artist,
     genre |-> s.genre, mood |-> s.mood]

\* the rows one log row joins to: one per catalogue row with its song_id
MatchesOf(l, songs) ==
    LET hit == SelectSeq(songs, LAMBDA s : s.song_id = l.song_id)
    IN  [j \in DOMAIN hit |-> JoinRow(l, hit[j])]

\* a left outer join keeps a log row that matches no catalogue row
LeftJoin(logs, songs) ==
    Flatten([i \in DOMAIN logs |->
        IF MatchesOf(logs[i], songs) = <<>>
        THEN <<JoinRow(logs[i], [title |-> "", artist |-> "", genre |-> "", mood |-> ""])>>
        ELSE MatchesOf(logs[i], songs)])

InnerJoin(logs, songs) ==
    Flatten([i \in DOMAIN logs |-> MatchesOf(logs[i], songs)])

(***************************************************************************)
(* Windowing: row_number() over a partition ordered by a measure,          *)
(* descending.  Spark leaves the order of rows with equal measure open;    *)
(* tie gives each row the key that settles it.                             *)
(***************************************************************************)
Before(a, b, measure, tie) ==
    \/ measure[a] > measure[b]
    \/ measure[a] = measure[b] /\ tie[a] < tie[b]

\* measure and tie are functions on the rows of the partition
RowNumber(r, part, measure, tie) ==
    1 + Cardinality({q \in part : Before(q, r, measure, tie)})

\* orderBy(F.desc(measure)): the rows in row-number order
OrderByDesc(rows, measure, tie) ==
    [i \in 1..Cardinality(rows) |->
        CHOOSE r \in rows : RowNumber(r, rows, measure, tie) = i]

\* a limit that stops one row short
LimitOffByOne(rows, n) == SubSeq(rows, 1, Min(n - 1, Len(rows)))

Limit(rows, n) == SubSeq(rows, 1, Min(n, Len(rows)))

\* the orders in which ties among the values of a list may fall: every
\* rotation of the list, forwards and backwards
TieOrders(values) ==
    LET n == Len(values)
        pos(x) == CHOOSE i \in 1..n : values[i] = x
    IN  {[x \in Range(values) |->
            LET p == (pos(x) - 1 + r) % n
            IN  IF rev THEN n - 1 - p ELSE p] :
         r \in 0..(IF n = 0 THEN 0 ELSE n - 1), rev \in BOOLEAN}

(***************************************************************************)
(* Task 1: each user's favourite genre                                     *)
(***************************************************************************)
UserGenreCounts(enriched) ==
    {[user_id |-> k[1], genre |-> k[2],
      play_count |-> Cardinality({i \in DOMAIN enriched :
                        <<enriched[i].user_id, enriched[i].genre>> = k})] :
     k \in {<<enriched[i].user_id, enriched[i].genre>> : i \in DOMAIN enriched}}

\* tie[u][g]: the place of genre g among user u's equally played genres
task1_user_favorite_genres(enriched, tie) ==
    LET counts == UserGenreCounts(enriched)
        part(u) == {r \in counts : r.user_id = u}
    IN  {r \in counts :
            RowNumber(r, part(r.user_id), [q \in counts |-> q.play_count],
                      [q \in counts |-> tie[q.user_id][q.genre]]) = FavoriteRank}

(***************************************************************************)
(* Task 2: average listen time per song, over the raw log                  *)
(***************************************************************************)
\* F.avg skips nulls: [sum, n] over the non-null durations, n = 0 for none
AvgDuration(logs, song) ==
    LET idx == {i \in DOMAIN logs :
                    logs[i].song_id = song /\ ~logs[i].duration_sec.null}
    IN  [sum |-> SumOver(idx, [i \in idx |-> logs[i].duration_sec.v]),
         n |-> Cardinality(idx)]

task2_avg_listen_time_per_song(logs) ==
    {[song_id |-> s,
      avg_duration_sec |-> AvgDuration(logs, s),
      play_count |-> Cardinality({i \in DOMAIN logs : logs[i].song_id = s})] :
     s \in {logs[i].song_id : i \in DOMAIN logs}}

(***************************************************************************)
(* Task 3: the ten most played songs of the last seven days                *)
(***************************************************************************)
one_week_ago(current_date) == current_date - WeekDays * HoursPerDay

\* F.col("timestamp") >= one_week_ago; a null timestamp compares to null
InThisWeek(row, current_date) ==
    ~row.timestamp.null /\ row.timestamp.v >= one_week_ago(current_date)

WeekSongCounts(enriched, current_date) ==
    LET week == SelectSeq(enriched, LAMBDA r : InThisWeek(r, current_date))
        key(r) == <<r.song_id, r.title, r.artist>>
    IN  {[song_id |-> k[1], title |-> k[2], artist |-> k[3],
          play_count |-> Cardinality({i \in DOMAIN week : key(week[i]) = k})] :
         k \in {key(week[i]) : i \in DOMAIN week}}

\* tie[s]: the place of song s among equally played songs
task3_top_songs_this_week(enriched, current_date, tie) ==
    LET counts == WeekSongCounts(enriched, current_date)
    IN  Limit(OrderByDesc(counts, [r \in counts |-> r.play_count],
                          [r \in counts |-> tie[r.song_id]]),
              TopSongsLimit)

(***************************************************************************)
(* Task 4: 'Happy' songs for the users who mostly listen to 'Sad' songs    *)
(***************************************************************************)
MoodCounts(enriched) ==
    {[user_id |-> k[1], mood |-> k[2],
      count |-> Cardinality({i \in DOMAIN enriched :
                    <<enriched[i].user_id, enriched[i].mood>> = k})] :
     k \in {<<enriched[i].user_id, enriched[i].mood>> : i \in DOMAIN enriched}}

\* tie[u][m]: the place of mood m among user u's equally played moods
sad_song_listeners(enriched, tie) ==
    LET counts == MoodCounts(enriched)
        part(u) == {r \in counts : r.user_id = u}
    IN  {r.user_id : r \in
            {q \in counts :
                /\ RowNumber(q, part(q.user_id), [x \in counts |-> x.count],
                             [x \in counts |-> tie[x.user_id][x.mood]]) = 1
                /\ q.mood = "Sad"}}

user_songs(enriched) ==
    {<<enriched[i].user_id, enriched[i].song_id>> : i \in DOMAIN enriched}

happy_songs(songs) == SelectSeq(songs, LAMBDA s : s.mood = "Happy")

user_listened_songs(enriched, user) ==
    {p[2] : p \in {q \in user_songs(enriched) : q[1] = user}}

\* the happy songs whatever the user has listened to
EligibleIgnoringHistory(enriched, songs, user) == DOMAIN happy_songs(songs)

\* the happy songs the user has not listened to: rows of happy_songs
EligibleRows(enriched, songs, user) ==
    LET happy == happy_songs(songs)
    IN  {i \in DOMAIN happy :
            happy[i].song_id \notin user_listened_songs(enriched, user)}

\* a random sample of at most n rows, which may fall short of n
RandomSample(rows, n) == {T \in SUBSET rows : Cardinality(T) <= n}

\* orderBy(F.rand()).limit(n) on a set of rows: every choice of
\* Min(n, size) of them is possible
RandomLimit(rows, n) ==
    {T \in SUBSET rows : Cardinality(T) = Min(n, Cardinality(rows))}

RECURSIVE IndexSeq(_)
\* a set of numbers as an ascending sequence
IndexSeq(S) ==
    IF S = {} THEN <<>>
    ELSE LET m == CHOOSE x \in S : \A y \in S : x <= y
         IN  <<m>> \o IndexSeq(S \ {m})

\* the frame of one user's recommendations: the picked rows of happy_songs
user_recommendations(songs, user, picked) ==
    LET happy == happy_songs(songs)
        idx == IndexSeq(picked)
    IN  [columns |-> RecommendationColumns,
         rows |-> [j \in DOMAIN idx |->
                    [user_id |-> user, song_id |-> happy[idx[j]].song_id,
                     title |-> happy[idx[j]].title,
                     artist |-> happy[idx[j]].artist]]]

RECURSIVE UnionFrom(_, _, _)
\* final_recommendations.union(recommendations[i]) for i from the given index
UnionFrom(acc, recommendations, i) ==
    IF i > Len(recommendations) THEN acc
    ELSE UnionFrom([columns |-> acc.columns,
                    rows |-> acc.rows \o recommendations[i].rows],
                   recommendations, i + 1)

\* the combination without the test for an empty list: recommendations[0]
\* of an empty list raises IndexError
CombineUnguarded(recommendations) ==
    IF recommendations = <<>>
    THEN [error |-> TRUE, columns |-> <<>>, rows |-> <<>>]
    ELSE [error |-> FALSE]
         @@ UnionFrom(recommendations[1], recommendations, 2)

\* lines 170-183: the union of the users' frames, or an empty frame with
\* the four declared columns
CombineRecommendations(recommendations) ==
    IF recommendations # <<>>
    THEN [error |-> FALSE]
         @@ UnionFrom(recommendations[1], recommendations, 2)
    ELSE [error |-> FALSE, columns |-> RecommendationColumns, rows |-> <<>>]

\* the users in the order the driver collects them (the order of UserList)
CollectUsers(S) == SelectSeq(UserList, LAMBDA u : u \in S)

\* picked[u]: the rows the random limit kept for user u
task4_happy_song_recommendations(enriched, songs, tie, picked) ==
    LET cohort == CollectUsers(sad_song_listeners(enriched, tie))
    IN  CombineRecommendations(
            [i \in DOMAIN cohort |->
                user_recommendations(songs, cohort[i], picked[cohort[i]])])

(***************************************************************************)
(* Task 5: genre loyalty scores                                            *)
(***************************************************************************)
user_total_plays(enriched) ==
    {[user_id |-> u,
      total_plays |-> Cardinality({i \in DOMAIN enriched : enriched[i].user_id = u})] :
     u \in {enriched[i].user_id : i \in DOMAIN enriched}}

user_genre_plays(enriched) ==
    {[user_id |-> k[1], genre |-> k[2],
      genre_plays |-> Cardinality({i \in DOMAIN enriched :
                        <<enriched[i].user_id, enriched[i].genre>> = k})] :
     k \in {<<enriched[i].user_id, enriched[i].genre>> : i \in DOMAIN enriched}}

\* F.max("genre_plays") over the user's partition, and the rows that reach it
user_max_genre(enriched) ==
    LET plays == user_genre_plays(enriched)
        max_genre_plays(u) ==
            CHOOSE m \in {r.genre_plays : r \in {q \in plays : q.user_id = u}} :
                \A r \in plays : r.user_id = u => r.genre_plays <= m
    IN  {[user_id |-> r.user_id, genre |-> r.genre,
          max_genre_plays |-> max_genre_plays(r.user_id)] :
         r \in {q \in plays : q.genre_plays = max_genre_plays(q.user_id)}}

\* the filter with >= in place of >
PassesCutoffInclusive(score) ==
    score.num * LoyaltyCutoff.den >= LoyaltyCutoff.num * score.den

\* loyalty_score > 0.8, on the fraction max_genre_plays / total_plays
PassesCutoff(score) ==
    score.num * LoyaltyCutoff.den > LoyaltyCutoff.num * score.den

\* the join of user_max_genre with user_total_plays, scored
ScoredGenres(enriched) ==
    {[user_id |-> m.user_id, genre |-> m.genre,
      loyalty_score |-> [num |-> m.max_genre_plays, den |-> t.total_plays]] :
     <<m, t>> \in {p \in user_max_genre(enriched) \X user_total_plays(enriched) :
                    p[1].user_id = p[2].user_id}}

\* the total counted per user and genre instead of per user
task5_total_per_genre(enriched) ==
    {r \in {[user_id |-> m.user_id, genre |-> m.genre,
             loyalty_score |-> [num |-> m.max_genre_plays, den |-> g.genre_plays]] :
            <<m, g>> \in {p \in user_max_genre(enriched) \X user_genre_plays(enriched) :
                            p[1].user_id = p[2].user_id /\ p[1].genre = p[2].genre}} :
        PassesCutoff(r.loyalty_score)}

task5_genre_loyalty_scores(enriched) ==
    {r \in ScoredGenres(enriched) : PassesCutoff(r.loyalty_score)}

(***************************************************************************)
(* Task 6: night owls, over the raw log                                    *)
(***************************************************************************)
\* F.hour of a timestamp; null stays null and fails the filter
IsNightPlay(row) ==
    /\ ~row.timestamp.null
    /\ row.timestamp.v % HoursPerDay >= NightStartHour
    /\ row.timestamp.v % HoursPerDay < NightEndHour

task6_night_owl_users(logs) ==
    LET night == SelectSeq(logs, IsNightPlay)
    IN  {[user_id |-> u,
          night_plays |-> Cardinality({i \in DOMAIN night : night[i].user_id = u})] :
         u \in {night[i].user_id : i \in DOMAIN night}}

(***************************************************************************)
(* The output directory                                                    *)
(* A subdirectory is "absent", holds a "prior" run's artifact, is "empty"  *)
(* (created, nothing written) or holds this run's "new" artifact.          *)
(***************************************************************************)
rmtree(dirs) == [d \in subdirs |-> "absent"]

makedirs(dirs) ==
    [d \in subdirs |-> IF dirs[d] = "absent" THEN "empty" ELSE dirs[d]]

prepare_output_directory(dirs) ==
    makedirs(IF \E d \in subdirs : dirs[d] # "absent" THEN rmtree(dirs) ELSE dirs)

\* write.mode("overwrite") to one subdirectory
Overwrite(dirs, d) == [dirs EXCEPT ![d] = "new"]

(***************************************************************************)
(* The run: __main__                                                       *)
(***************************************************************************)
Step(name) == status = "running" /\ todo # <<>> /\ Head(todo) = name

\* the step returned: on to the next one, or the run is complete
Advance ==
    /\ todo' = Tail(todo)
    /\ status' = IF Tail(todo) = <<>> THEN "done" ELSE "running"

inputs == <<files, prior_output, logs_csv, songs_csv, now>>
frames == <<logs_df, songs_df, enriched_logs>>
results == <<user_favorite_genres, avg_listen_time, top_songs,
             final_recommendations, loyalty_scores, night_owl_users>>

PrepareOutputDirectory ==
    /\ Step("prepare_output_directory")
    /\ output' = prepare_output_directory(output)
    /\ Advance
    /\ UNCHANGED <<inputs, frames, results>>

\* spark.read...csv(path) raises when the path does not exist
LoadDataMissingSource ==
    /\ Step("load_data")
    /\ ~(files.logs /\ files.songs)
    /\ status' = "failed"
    /\ todo' = <<>>
    /\ UNCHANGED <<inputs, output, frames, results>>

LoadData ==
    /\ Step("load_data")
    /\ files.logs /\ files.songs
    /\ logs_df' = ReadLogs(logs_csv)
    /\ songs_df' = ReadSongs(songs_csv)
    /\ enriched_logs' = InnerJoin(ReadLogs(logs_csv), ReadSongs(songs_csv))
    /\ Advance
    /\ UNCHANGED <<inputs, output, results>>

Task1 ==
    /\ Step("task1")
    /\ \E tie \in [Users -> TieOrders(Genres)] :
           user_favorite_genres' = task1_user_favorite_genres(enriched_logs, tie)
    /\ output' = Overwrite(output, "user_favorite_genres")
    /\ Advance
    /\ UNCHANGED <<inputs, frames, avg_listen_time, top_songs,
                   final_recommendations, loyalty_scores, night_owl_users>>

Task2 ==
    /\ Step("task2")
    /\ avg_listen_time' = task2_avg_listen_time_per_song(logs_df)
    /\ output' = Overwrite(output, "avg_listen_time_per_song")
    /\ Advance
    /\ UNCHANGED <<inputs, frames, user_favorite_genres, top_songs,
                   final_recommendations, loyalty_scores, night_owl_users>>

\* the songs of the catalogue, in catalogue order
SongIds(songs) == [i \in DOMAIN songs |-> songs[i].song_id]

Task3 ==
    /\ Step("task3")
    /\ \E tie \in TieOrders(SongIds(songs_df)) :
           top_songs' = task3_top_songs_this_week(enriched_logs, now, tie)
    /\ output' = Overwrite(output, "top_songs_this_week")
    /\ Advance
    /\ UNCHANGED <<inputs, frames, user_favorite_genres, avg_listen_time,
                   final_recommendations, loyalty_scores, night_owl_users>>

\* every way of giving each member of D one element of its set choices[d]
RECURSIVE Selections(_, _)
Selections(D, choices) ==
    IF D = {} THEN {<<>>}
    ELSE LET d == CHOOSE x \in D : TRUE
         IN  {(d :> c) @@ f : c \in choices[d], f \in Selections(D \ {d}, choices)}

Task4 ==
    /\ Step("task4")
    /\ LET limited == [u \in Users |->
                          RandomLimit(EligibleRows(enriched_logs, songs_df, u),
                                      RecommendationLimit)]
           ties == [Users -> TieOrders(Moods)]
           \* a tie order matters only through the cohort it yields
           cohorts == {sad_song_listeners(enriched_logs, t) : t \in ties}
       IN
       \E cohort \in cohorts :
         \E picked \in Selections(cohort, limited) :
            LET tie == CHOOSE t \in ties :
                           sad_song_listeners(enriched_logs, t) = cohort
                result == task4_happy_song_recommendations(
                              enriched_logs, songs_df, tie, picked)
            IN  /\ final_recommendations' =
                       [columns |-> result.columns, rows |-> result.rows]
                /\ output' = IF result.error THEN output
                             ELSE Overwrite(output, "happy_recommendations")
                /\ todo' = IF result.error THEN <<>> ELSE Tail(todo)
                /\ status' = IF result.error THEN "failed"
                             ELSE IF Tail(todo) = <<>> THEN "done" ELSE "running"
    /\ UNCHANGED <<inputs, frames, user_favorite_genres, avg_listen_time,
                   top_songs, loyalty_scores, night_owl_users>>

Task5 ==
    /\ Step("task5")
    /\ loyalty_scores' = task5_genre_loyalty_scores(enriched_logs)
    /\ output' = Overwrite(output, "genre_loyalty_scores")
    /\ Advance
    /\ UNCHANGED <<inputs, frames, user_favorite_genres, avg_listen_time,
                   top_songs, final_recommendations, night_owl_users>>

Task6 ==
    /\ Step("task6")
    /\ night_owl_users' = task6_night_owl_users(logs_df)
    /\ output' = Overwrite(output, "night_owl_users")
    /\ Advance
    /\ UNCHANGED <<inputs, frames, user_favorite_genres, avg_listen_time,
                   top_songs, final_recommendations, loyalty_scores>>

SaveEnrichedLogs ==
    /\ Step("save_enriched_logs")
    /\ output' = Overwrite(output, "enriched_logs")
    /\ Advance
    /\ UNCHANGED <<inputs, frames, results>>

Next ==
    \/ PrepareOutputDirectory
    \/ LoadDataMissingSource
    \/ LoadData
    \/ Task1
    \/ Task2
    \/ Task3
    \/ Task4
    \/ Task5
    \/ Task6
    \/ SaveEnrichedLogs

(***************************************************************************)
(* Inputs                                                                  *)
(***************************************************************************)
MaxLog == 2
MaxLogJoin == 3
NumSongsJoin == 3
ExtraSongs == 1
MaxPlays == 2
MaxLogTop == 3
MaxHappy == 4
MaxLogRec == 3
NumSongsLoyalty == 3
MaxLogLoyalty == 6

RECURSIVE SetToSeq(_)
SetToSeq(S) ==
    IF S = {} THEN <<>>
    ELSE LET x == CHOOSE y \in S : TRUE IN <<x>> \o SetToSeq(S \ {x})

RECURSIVE Ascending(_, _, _)
\* the sequences of k numbers of lo..m that never descend
Ascending(m, lo, k) ==
    IF k = 0 THEN {<<>>}
    ELSE UNION {{<<j>> \o rest : rest \in Ascending(m, j, k - 1)} : j \in lo..m}

\* the logs of at most n rows drawn from a list of rows, in list order (the
\* analyses group and join, so the order of the rows of a log is immaterial)
SortedLogs(list, n) ==
    UNION {{[i \in DOMAIN f |-> list[f[i]]] : f \in Ascending(Len(list), 1, k)} :
           k \in 0..n}

\* the logs of at most n rows drawn from a set of rows, in every order
AllLogs(rows, n) == UNION {[1..k -> rows] : k \in 0..n}

\* the genre and the mood of the i-th song when they go round the lists
Cyclic(values, i) == values[((i - 1) % Len(values)) + 1]

\* a catalogue with song_id 1..n, the i-th song of genre genres[i] and mood
\* moods[i]
CatalogOf(genres, moods) ==
    [i \in DOMAIN genres |->
        [song_id |-> i, title |-> <<"title", i>>, artist |-> <<"artist", i>>,
         genre |-> genres[i], mood |-> moods[i]]]

CyclicCatalog(n) ==
    CatalogOf([i \in 1..n |-> Cyclic(Genres, i)], [i \in 1..n |-> Cyclic(Moods, i)])

RunTimes == {[day |-> 10, hour |-> 3]}

\* an hour before the week starts, the day before the run at noon, and the
\* day after the run
EventTimes(run) ==
    {[day |-> run.day - WeekDays, hour |-> run.hour - 1],
     [day |-> run.day - 1, hour |-> 12],
     [day |-> run.day + 1, hour |-> run.hour]}

Recent(run) == [day |-> run.day - 1, hour |-> 12]

Numeric == <<"2", "0", "0">>
NotNumeric == <<"a", "b", "c">>

LogRows(users, songs, times, durations) ==
    {[user_id |-> u, song_id |-> s, timestamp |-> ts, duration_sec |-> d] :
     u \in users, s \in songs, ts \in times, d \in durations}

NoOutput == [d \in subdirs |-> "absent"]
PriorOutput == [d \in subdirs |-> "prior"]

\* nothing loaded and nothing computed yet
Fresh ==
    /\ status = "running"
    /\ output = prior_output
    /\ logs_df = <<>>
    /\ songs_df = <<>>
    /\ enriched_logs = <<>>
    /\ user_favorite_genres = {}
    /\ avg_listen_time = {}
    /\ top_songs = <<>>
    /\ final_recommendations = [columns |-> <<>>, rows |-> <<>>]
    /\ loyalty_scores = {}
    /\ night_owl_users = {}

\* the whole run: a Happy and a Sad song in the catalogue, song 3 in no
\* catalogue row
Init ==
    /\ todo = MainSequence
    /\ files \in [logs : BOOLEAN, songs : BOOLEAN]
    /\ prior_output \in {NoOutput, PriorOutput}
    /\ now \in {to_timestamp(r).v : r \in RunTimes}
    /\ songs_csv = CatalogOf(<<"Pop", "Rock">>, <<"Happy", "Sad">>)
    /\ \E r \in RunTimes :
          logs_csv \in SortedLogs(SetToSeq(LogRows(Users, 1..3, EventTimes(r),
                                                   {Numeric, NotNumeric})), MaxLog)
    /\ Fresh

Spec == Init /\ [][Next]_vars

\* the join alone: any part of the songs 1..NumSongsJoin as the catalogue
InitJoin ==
    /\ todo = <<"load_data">>
    /\ files = [logs |-> TRUE, songs |-> TRUE]
    /\ prior_output = NoOutput
    /\ now \in {to_timestamp(r).v : r \in RunTimes}
    /\ \E I \in SUBSET (1..NumSongsJoin) :
          songs_csv = SelectSeq(CyclicCatalog(NumSongsJoin), LAMBDA s : s.song_id \in I)
    /\ \E r \in RunTimes :
          logs_csv \in AllLogs(LogRows(Users, 1..NumSongsJoin, {Recent(r)}, {Numeric}),
                               MaxLogJoin)
    /\ Fresh

SpecJoin == InitJoin /\ [][LoadData]_vars

\* the rankings: one more song than the limit of task 3, and either user U1
\* playing the first n songs, a song never less often than the next, or a
\* short log of both users over the first songs
PlayedNeverLess(n) ==
    {p \in [1..n -> 1..MaxPlays] : \A i \in 1..(n - 1) : p[i] >= p[i + 1]}

LogOfPlays(p, run) ==
    Flatten([s \in DOMAIN p |->
        [k \in 1..p[s] |->
            [user_id |-> "U1", song_id |-> s, timestamp |-> Recent(run),
             duration_sec |-> Numeric]]])

InitTop ==
    /\ todo = <<"load_data", "task1", "task3">>
    /\ files = [logs |-> TRUE, songs |-> TRUE]
    /\ prior_output = NoOutput
    /\ now \in {to_timestamp(r).v : r \in RunTimes}
    /\ songs_csv = CyclicCatalog(TopSongsLimit + ExtraSongs)
    /\ \E r \in RunTimes :
          \/ \E n \in 0..(TopSongsLimit + ExtraSongs) :
                \E p \in PlayedNeverLess(n) : logs_csv = LogOfPlays(p, r)
          \/ logs_csv \in SortedLogs(
                SetToSeq(LogRows(Users, 1..Len(Genres), {Recent(r)}, {Numeric})),
                MaxLogTop)
    /\ Fresh

SpecTop == InitTop /\ [][LoadData \/ Task1 \/ Task3]_vars

\* the recommendations: up to MaxHappy Happy songs, two Sad ones and a Chill
\* one; song 0 is in no catalogue row
InitRec ==
    /\ todo = <<"load_data", "task4">>
    /\ files = [logs |-> TRUE, songs |-> TRUE]
    /\ prior_output = NoOutput
    /\ now \in {to_timestamp(r).v : r \in RunTimes}
    /\ \E h \in 0..MaxHappy :
          /\ songs_csv = CatalogOf([i \in 1..(h + 3) |-> Cyclic(Genres, i)],
                                   [i \in 1..h |-> "Happy"] \o <<"Sad", "Sad", "Chill">>)
          /\ \E r \in RunTimes :
                logs_csv \in SortedLogs(
                    SetToSeq(LogRows(Users, 0..(h + 3), {Recent(r)}, {Numeric})),
                    MaxLogRec)
    /\ Fresh

SpecRec == InitRec /\ [][LoadData \/ Task4]_vars

\* the loyalty scores: NumSongsLoyalty songs, their genres going round Genres
InitLoyalty ==
    /\ todo = <<"load_data", "task5">>
    /\ files = [logs |-> TRUE, songs |-> TRUE]
    /\ prior_output = NoOutput
    /\ now \in {to_timestamp(r).v : r \in RunTimes}
    /\ songs_csv = CyclicCatalog(NumSongsLoyalty)
    /\ \E r \in RunTimes :
          logs_csv \in SortedLogs(
              SetToSeq(LogRows(Users, 1..NumSongsLoyalty, {Recent(r)}, {Numeric})),
              MaxLogLoyalty)
    /\ Fresh

SpecLoyalty == InitLoyalty /\ [][LoadData \/ Task5]_vars

(***************************************************************************)
(* Properties                                                              *)
(***************************************************************************)
\* the step is not ahead of the run
Past(name) == \A i \in DOMAIN todo : todo[i] # name

\* the step has run and the run has not failed
Ran(name) == status \in {"running", "done"} /\ Past(name)

CatalogueKeys == {songs_df[j].song_id : j \in DOMAIN songs_df}

EventPart(r) ==
    [user_id |-> r.user_id, song_id |-> r.song_id, timestamp |-> r.timestamp,
     duration_sec |-> r.duration_sec]

SongPart(r) ==
    [song_id |-> r.song_id, title |-> r.title, artist |-> r.artist,
     genre |-> r.genre, mood |-> r.mood]

\* C2: the enriched relation has exactly one row per event whose song_id is a
\* key of the catalogue: as many rows as such events, each event with a key
\* as often as it is in the log, an event without a key never, and every row
\* made of an event of the log and of a row of the catalogue.
C2_JoinCardinality ==
    Ran("load_data") =>
        /\ Len(enriched_logs) =
               Cardinality({i \in DOMAIN logs_df : logs_df[i].song_id \in CatalogueKeys})
        /\ \A e \in Range(logs_df) :
               Cardinality({k \in DOMAIN enriched_logs : EventPart(enriched_logs[k]) = e})
                 = IF e.song_id \in CatalogueKeys
                   THEN Cardinality({i \in DOMAIN logs_df : logs_df[i] = e})
                   ELSE 0
        /\ \A k \in DOMAIN enriched_logs :
               /\ EventPart(enriched_logs[k]) \in Range(logs_df)
               /\ SongPart(enriched_logs[k]) \in Range(songs_df)

\* a log with an event twice, an event of a song outside the catalogue and a
\* catalogue song nobody played, joined
C2_Witness ==
    /\ Ran("load_data")
    /\ \E i, j \in DOMAIN logs_df :
          i # j /\ logs_df[i] = logs_df[j] /\ logs_df[i].song_id \in CatalogueKeys
    /\ \E i \in DOMAIN logs_df : logs_df[i].song_id \notin CatalogueKeys
    /\ \E s \in CatalogueKeys : \A i \in DOMAIN logs_df : logs_df[i].song_id # s

\* the plays of a genre by a user, and of a song within [now - 7 days, now]
GenrePlays(u, g) ==
    Cardinality({i \in DOMAIN enriched_logs :
                    enriched_logs[i].user_id = u /\ enriched_logs[i].genre = g})

UserGenres(u) == {g \in Range(Genres) : GenrePlays(u, g) > 0}

InClosedWeek(r) ==
    /\ ~r.timestamp.null
    /\ r.timestamp.v >= now - WeekDays * HoursPerDay
    /\ r.timestamp.v <= now

WeekPlays(s) ==
    Cardinality({i \in DOMAIN enriched_logs :
                    enriched_logs[i].song_id = s /\ InClosedWeek(enriched_logs[i])})

WeekSongs == {s \in CatalogueKeys : WeekPlays(s) > 0}

FavoriteOf(u) == {r \in user_favorite_genres : r.user_id = u}

TopSongIds == {top_songs[k].song_id : k \in DOMAIN top_songs}

\* C3: a group with at most K members has all of them returned, a larger one
\* exactly K of them, none played less than a member left out; every returned
\* row carries its member's play count.  K = 1 over a user's genres in task 1,
\* K = 10 over the songs of the week in task 3.
C3_TopKComplete ==
    /\ Ran("task1") =>
          \A u \in Users :
              /\ \A r \in FavoriteOf(u) :
                     r.genre \in UserGenres(u) /\ r.play_count = GenrePlays(u, r.genre)
              /\ Cardinality(UserGenres(u)) <= 1 =>
                     {r.genre : r \in FavoriteOf(u)} = UserGenres(u)
              /\ Cardinality(UserGenres(u)) > 1 =>
                     /\ Cardinality(FavoriteOf(u)) = 1
                     /\ \A r \in FavoriteOf(u) : \A g \in UserGenres(u) :
                            r.play_count >= GenrePlays(u, g)
    /\ Ran("task3") =>
          /\ Cardinality(TopSongIds) = Len(top_songs)
          /\ \A k \in DOMAIN top_songs :
                 /\ top_songs[k].song_id \in WeekSongs
                 /\ top_songs[k].play_count = WeekPlays(top_songs[k].song_id)
          /\ Cardinality(WeekSongs) <= 10 => TopSongIds = WeekSongs
          /\ Cardinality(WeekSongs) > 10 =>
                 /\ Len(top_songs) = 10
                 /\ \A k \in DOMAIN top_songs : \A s \in WeekSongs \ TopSongIds :
                        top_songs[k].play_count >= WeekPlays(s)

\* eleven songs played in the week, one of them less than a returned one, and
\* a user with several genres
C3_Witness ==
    /\ Ran("task1") /\ Ran("task3")
    /\ Cardinality(WeekSongs) > 10
    /\ \E k \in DOMAIN top_songs : \E s \in WeekSongs \ TopSongIds :
           top_songs[k].play_count > WeekPlays(s)
    /\ \E u \in Users : Cardinality(UserGenres(u)) > 1 /\ FavoriteOf(u) # {}

RecommendationsOf(u) ==
    {k \in DOMAIN final_recommendations.rows :
        final_recommendations.rows[k].user_id = u}

HasEvent(u, s) ==
    \E i \in DOMAIN logs_df : logs_df[i].user_id = u /\ logs_df[i].song_id = s

HappyKeys == {songs_df[j].song_id : j \in {i \in DOMAIN songs_df : songs_df[i].mood = "Happy"}}

\* C1: every emitted record names a song the user has no event for in the log
\* and whose mood in the catalogue is Happy; no user has more than 3 records.
C1_RecommendationInvariant ==
    Ran("task4") =>
        /\ \A k \in DOMAIN final_recommendations.rows :
              LET r == final_recommendations.rows[k]
              IN  /\ ~HasEvent(r.user_id, r.song_id)
                  /\ \A j \in DOMAIN songs_df :
                         songs_df[j].song_id = r.song_id => songs_df[j].mood = "Happy"
                  /\ r.song_id \in CatalogueKeys
        /\ \A u \in Users : Cardinality(RecommendationsOf(u)) <= 3

\* a user with three records who has an event for another Happy song
C1_Witness ==
    /\ Ran("task4")
    /\ \E u \in Users :
          /\ Cardinality(RecommendationsOf(u)) = 3
          /\ \E s \in HappyKeys : HasEvent(u, s)

MoodPlays(u, m) ==
    Cardinality({i \in DOMAIN enriched_logs :
                    enriched_logs[i].user_id = u /\ enriched_logs[i].mood = m})

SadStrictlyFirst(u) ==
    \A m \in Range(Moods) \ {"Sad"} : MoodPlays(u, "Sad") > MoodPlays(u, m)

SadBehind(u) ==
    \E m \in Range(Moods) \ {"Sad"} : MoodPlays(u, m) > MoodPlays(u, "Sad")

Unheard(u) == {s \in HappyKeys : ~HasEvent(u, s)}

\* C8: a user who played Sad strictly more than every other mood gets exactly
\* min(3, n) records, n the Happy songs of the catalogue the user has no event
\* for, all naming different songs; a user who played some mood strictly more
\* than Sad gets none.
C8_RecommendationCount ==
    Ran("task4") =>
        \A u \in Users :
            /\ SadStrictlyFirst(u) =>
                  /\ Cardinality(RecommendationsOf(u)) =
                         Min(3, Cardinality(Unheard(u)))
                  /\ \A k1, k2 \in RecommendationsOf(u) :
                         k1 # k2 => final_recommendations.rows[k1].song_id
                                      # final_recommendations.rows[k2].song_id
            /\ SadBehind(u) => RecommendationsOf(u) = {}

\* a Sad listener with one or two eligible songs, who gets them all
C8_Witness ==
    /\ Ran("task4")
    /\ \E u \in Users :
          /\ SadStrictlyFirst(u)
          /\ Cardinality(Unheard(u)) \in 1..2
          /\ Cardinality(RecommendationsOf(u)) = Cardinality(Unheard(u))
          /\ \E s \in HappyKeys : HasEvent(u, s)

TotalPlays(u) ==
    Cardinality({i \in DOMAIN enriched_logs : enriched_logs[i].user_id = u})

MaxGenrePlays(u) ==
    CHOOSE m \in 0..TotalPlays(u) :
        /\ \A g \in Range(Genres) : GenrePlays(u, g) <= m
        /\ m = 0 \/ \E g \in Range(Genres) : GenrePlays(u, g) = m

LoyaltyOf(u) == {r \in loyalty_scores : r.user_id = u}

\* C4: every emitted loyalty_score is the user's largest genre count over the
\* user's total count and lies in (0.8, 1.0]; users at 0.8 or below are not
\* emitted and users above 0.8 are.
C4_LoyaltyBound ==
    Ran("task5") =>
        /\ \A r \in loyalty_scores :
              /\ r.loyalty_score.num * TotalPlays(r.user_id)
                     = MaxGenrePlays(r.user_id) * r.loyalty_score.den
              /\ r.loyalty_score.den > 0
              /\ 5 * r.loyalty_score.num > 4 * r.loyalty_score.den
              /\ r.loyalty_score.num <= r.loyalty_score.den
        /\ \A u \in Users :
              TotalPlays(u) > 0 =>
                  (LoyaltyOf(u) # {} <=> 5 * MaxGenrePlays(u) > 4 * TotalPlays(u))

\* an emitted score strictly between 0.8 and 1
C4_Witness ==
    /\ Ran("task5")
    /\ \E r \in loyalty_scores : r.loyalty_score.num < r.loyalty_score.den

TiedAtMax(u) ==
    /\ TotalPlays(u) > 0
    /\ Cardinality({g \in Range(Genres) : GenrePlays(u, g) = MaxGenrePlays(u)}) > 1

\* C10: the loyalty output holds at most one record per user, and none for a
\* user with two genres tied at the maximum.
C10_OneRecordPerUser ==
    Ran("task5") =>
        \A u \in Users :
            /\ Cardinality(LoyaltyOf(u)) <= 1
            /\ TiedAtMax(u) => LoyaltyOf(u) = {}

\* one user tied at the maximum beside an emitted user
C10_Witness ==
    /\ Ran("task5")
    /\ \E u \in Users : TiedAtMax(u) /\ LoyaltyOf(u) = {}
    /\ \E u \in Users : LoyaltyOf(u) # {}

SadCanBeFirst(u) ==
    /\ MoodPlays(u, "Sad") > 0
    /\ \A m \in Range(Moods) : MoodPlays(u, "Sad") >= MoodPlays(u, m)

\* C9: with both input files in place and an empty log the run does not fail
\* and ends with six empty results, each written; with no user for whom Sad
\* is a most played mood, task 4 writes an empty relation with the columns
\* user_id, song_id, title, artist.
C9_EmptyIsNotAnError ==
    /\ (files.logs /\ files.songs /\ logs_csv = <<>>) =>
          /\ status # "failed"
          /\ status = "done" =>
                /\ user_favorite_genres = {}
                /\ avg_listen_time = {}
                /\ top_songs = <<>>
                /\ final_recommendations.rows = <<>>
                /\ loyalty_scores = {}
                /\ night_owl_users = {}
                /\ \A d \in subdirs : output[d] = "new"
    /\ (files.logs /\ files.songs /\ Past("task4")
          /\ \A u \in Users : ~SadCanBeFirst(u)) =>
          /\ status # "failed"
          /\ final_recommendations =
                 [columns |-> <<"user_id", "song_id", "title", "artist">>, rows |-> <<>>]
          /\ output["happy_recommendations"] = "new"

\* a run over a log with events and no Sad listener, complete
C9_Witness ==
    /\ status = "done"
    /\ logs_csv # <<>>
    /\ enriched_logs # <<>>
    /\ \A u \in Users : ~SadCanBeFirst(u)
    /\ final_recommendations.rows = <<>>

\* C5: a failed run has written no output location and has left what the
\* prior run wrote in place.
C5_AllOrNothing ==
    status = "failed" =>
        /\ \A d \in subdirs : output[d] # "new"
        /\ \A d \in subdirs : prior_output[d] = "prior" => output[d] = "prior"

\* C6: every play_count of the top songs counts the events of the song within
\* [now - 7 days, now] and no other.
C6_ClosedWindow ==
    Ran("task3") =>
        \A k \in DOMAIN top_songs :
            top_songs[k].play_count = WeekPlays(top_songs[k].song_id)

\* C7: when a row of the log has a duration_sec that is not a number,
\* load_data fails the run, and no row reaches the analyses with a missing
\* duration.
C7_MalformedRejected ==
    /\ (\E i \in DOMAIN logs_csv : logs_csv[i].duration_sec = NotNumeric) =>
          ~Ran("load_data")
    /\ \A i \in DOMAIN logs_df : ~logs_df[i].duration_sec.null

====
